---- MODULE Spec2Model ----
(***************************************************************************)
(* Meeting-processing backend: the upload handler, the background          *)
(* pipeline process_meeting with its SQLAlchemy session, and the delete,   *)
(* export, search and get handlers of src/main.py, over a store of         *)
(* Meeting rows (src/models.py) and the uploads/ and pdfs/ directories.    *)
(* The pure helpers of src/services/summarization_service.py (response     *)
(* parsing, duration estimate, participants), the matching code of         *)
(* search_in_meeting and the transcription functions of                    *)
(* src/services/transcription_service.py are checked under their own       *)
(* specifications.                                                         *)
(***************************************************************************)
EXTENDS Integers, Sequences, FiniteSets, TLC

\* Number of uploads the model follows; ids are handed out in order and an
\* id is not handed out twice.
MaxMeetings == 2

Ids == 1..MaxMeetings

\* A nullable column that holds no value.
NULL == "null"

\* The nullable columns process_meeting fills in on success.
DerivedFields ==
    {"transcript", "summary", "action_items", "decisions", "participants", "duration"}

\* Columns of the meetings table that the handlers read or write.
Fields == DerivedFields \cup {"status", "error_message"}

\* The place of an id that has no row in the table.
NoRow == [f \in Fields |-> IF f = "status" THEN "absent" ELSE NULL]

\* The row create_meeting inserts: only status is given, the rest is NULL.
NewMeeting == [f \in Fields |-> IF f = "status" THEN "processing" ELSE NULL]

VARIABLES
    nextId,     \* next primary key the store hands out
    meetings,   \* the meetings table: id -> committed row (NoRow when none)
    audio,      \* uploads/: id -> "none" | "empty" | "data" (the file at audio_path)
    pdf,        \* pdfs/:    id -> TRUE when pdfs/meeting_{id}.pdf exists
    pc,         \* position of the process_meeting task of each id
    session,    \* the task's Session: [active, pending attribute writes]
    run,        \* the task's locals and what it has done so far
    del,        \* the delete_meeting request in flight
    exp,        \* the export_meeting_as_pdf request in flight
    resp,       \* the last HTTP response sent
    text,       \* a model response handed to the parsers
    parsed,     \* what the parser returned for it
    words,      \* word count of a transcript handed to generate_summary
    minutes,    \* the estimated minutes generate_summary reported for it
    tscript,    \* a transcript handed to extract_participants
    participants, \* the list extract_participants returned for it
    meeting,    \* a completed Meeting loaded by search_in_meeting
    query,      \* the query of that search
    buckets,    \* what the search returned, or the exception it raised
    language,   \* the language hint handed to a transcription function
    request,    \* the transcription request built for it
    ws,         \* transcribe_audio_streaming: position, chunks left, inbox, results
    provider    \* the streaming provider: messages still to deliver, history

pipeVars == <<nextId, meetings, audio, pdf, pc, session, run, del, exp, resp>>
parseVars == <<text, parsed>>
durVars == <<words, minutes>>
partVars == <<tscript, participants>>
searchVars == <<meeting, query, buckets>>
asrVars == <<language, request, ws, provider>>
pureVars == <<text, parsed, words, minutes, tscript, participants,
              meeting, query, buckets, language, request, ws, provider>>
vars == <<nextId, meetings, audio, pdf, pc, session, run, del, exp, resp,
          text, parsed, words, minutes, tscript, participants,
          meeting, query, buckets, language, request, ws, provider>>

----------------------------------------------------------------------------
(* The Session of one process_meeting run.                                 *)

\* A function with an empty domain: no pending attribute write.
NoPending == [f \in {} |-> NULL]

\* next(get_db()): a fresh session, nothing pending.
NewSession == [active |-> TRUE, pending |-> NoPending]

\* The UPDATE a flush emits: the pending attributes overwrite the row's.
Flush(row, pending) ==
    [f \in Fields |-> IF f \in DOMAIN pending THEN pending[f] ELSE row[f]]

\* Attribute assignments on the loaded Meeting object: they stay in the
\* session until a commit flushes them.
Assign(sess, writes) ==
    [sess EXCEPT !.pending =
        [f \in (DOMAIN sess.pending) \cup (DOMAIN writes) |->
            IF f \in DOMAIN writes THEN writes[f] ELSE sess.pending[f]]]

\* A commit whose flush fails leaves the row as it was and keeps the session
\* usable with its pending writes: the behaviour the handler of
\* process_meeting would need, which the session does not have.
CommitKeepsPending(row, sess, fault) ==
    IF ~sess.active
    THEN [row |-> row, sess |-> sess, ok |-> FALSE]
    ELSE IF row.status = "absent" \/ fault
    THEN [row |-> row, sess |-> sess, ok |-> FALSE]
    ELSE [row |-> Flush(row, sess.pending),
          sess |-> [sess EXCEPT !.pending = NoPending], ok |-> TRUE]

\* A commit that reports a fault after the row was written, and stays usable.
CommitWritesThenRaises(row, sess, fault) ==
    IF ~sess.active
    THEN [row |-> row, sess |-> sess, ok |-> FALSE]
    ELSE IF row.status = "absent"
    THEN [row |-> row, sess |-> [active |-> FALSE, pending |-> NoPending], ok |-> FALSE]
    ELSE [row |-> Flush(row, sess.pending),
          sess |-> [sess EXCEPT !.pending = NoPending], ok |-> ~fault]

\* A commit that writes the loaded object back as a new row when its row is
\* gone, as session.merge() would.
CommitRecreates(row, sess, fault) ==
    IF ~sess.active
    THEN [row |-> row, sess |-> sess, ok |-> FALSE]
    ELSE IF fault
    THEN [row |-> row, sess |-> [active |-> FALSE, pending |-> NoPending], ok |-> FALSE]
    ELSE [row |-> Flush(IF row.status = "absent" THEN NewMeeting ELSE row, sess.pending),
          sess |-> [sess EXCEPT !.pending = NoPending], ok |-> TRUE]

\* db.commit() of process_meeting on its SQLAlchemy Session, which the code
\* never rolls back:
\*  - on a session whose earlier flush failed, commit raises
\*    (PendingRollbackError) and writes nothing;
\*  - the UPDATE of a row that is gone matches no row and the flush fails
\*    (StaleDataError);
\*  - a database fault makes the flush fail;
\*  - a failed flush rolls the transaction back, drops the pending writes
\*    (the object is expired) and leaves the session inactive;
\*  - otherwise all pending writes reach the row in one UPDATE.
Commit(row, sess, fault) ==
    IF ~sess.active
    THEN [row |-> row, sess |-> sess, ok |-> FALSE]
    ELSE IF row.status = "absent" \/ fault
    THEN [row |-> row, sess |-> [active |-> FALSE, pending |-> NoPending], ok |-> FALSE]
    ELSE [row |-> Flush(row, sess.pending),
          sess |-> [sess EXCEPT !.pending = NoPending], ok |-> TRUE]

----------------------------------------------------------------------------
(* Outcomes of the providers.                                              *)

\* What generate_summary can return for a non-blank transcript: the lists
\* may be empty, summary and duration are always strings.
SummaryResults ==
    { [summary |-> "S", action_items |-> "[]", decisions |-> "[]",
       participants |-> "[]", duration |-> "5 min"],
      [summary |-> "S", action_items |-> "[a]", decisions |-> "[d]",
       participants |-> "[p]", duration |-> "5 min"] }

NoSummary == [summary |-> NULL, action_items |-> NULL, decisions |-> NULL,
              participants |-> NULL, duration |-> NULL]

\* Lines 93-99 with participants left out.
CompletedWritesNoParticipants(transcript, summary_data) ==
    [f \in (DerivedFields \ {"participants"}) \cup {"status"} |->
        CASE f = "transcript" -> transcript
          [] f = "status"     -> "completed"
          [] OTHER            -> summary_data[f]]

\* Lines 93-99: the attribute writes of Step 3.
CompletedWrites(transcript, summary_data) ==
    [f \in DerivedFields \cup {"status"} |->
        CASE f = "transcript" -> transcript
          [] f = "status"     -> "completed"
          [] OTHER            -> summary_data[f]]

\* Lines 104-105 with the error_message left out.
FailedWritesNoMessage(e) ==
    [f \in {"status"} |-> "failed"]

\* Lines 104-105: the attribute writes of the failure handler.
FailedWrites(e) ==
    [f \in {"status", "error_message"} |->
        IF f = "status" THEN "failed" ELSE e]

NewRun == [err |-> "", excStep |-> 0, transcript |-> NULL,
           summary_data |-> NoSummary, tokenRequested |-> FALSE,
           asrRequested |-> FALSE, summarizeCalled |-> FALSE,
           failedCommitted |-> FALSE]

Terminal == {"returned", "completed", "reraised", "crashed"}

----------------------------------------------------------------------------
\* The store, the directories and the tasks when the server has started.
PipeInit ==
    /\ nextId = 1
    /\ meetings = [i \in Ids |-> NoRow]
    /\ audio = [i \in Ids |-> "none"]
    /\ pdf = [i \in Ids |-> FALSE]
    /\ pc = [i \in Ids |-> "idle"]
    /\ session = [i \in Ids |-> NewSession]
    /\ run = [i \in Ids |-> NewRun]
    /\ del = [pc |-> "idle", id |-> 0]
    /\ exp = [pc |-> "idle", id |-> 0, seen |-> "none"]
    /\ resp = [op |-> "none", id |-> 0, code |-> 0]

\* No parser or estimate has been called.
NoParse == [who |-> "none", raised |-> FALSE, value |-> <<>>]

\* extract_participants has not returned.
NotCalled == [called |-> FALSE, list |-> <<>>]

\* No response is with the parsers.
ParseIdle == text = <<>> /\ parsed = NoParse

\* No transcript is with the estimate.
DurationIdle == words = 0 /\ minutes = 0

\* No transcript is with extract_participants.
ParticipantsIdle == tscript = <<>> /\ participants = NotCalled

\* No result of a search.
NoMatch == [some |-> FALSE, text |-> <<>>]
NoBuckets == [called |-> FALSE, raised |-> "none", transcript_matches |-> <<>>,
              summary_match |-> NoMatch, action_item_matches |-> <<>>,
              decision_matches |-> <<>>]

\* No Meeting is with the matching code of search_in_meeting.
SearchIdle ==
    /\ meeting = [transcript |-> <<>>, summary |-> <<>>,
                  action_items |-> <<>>, decisions |-> <<>>]
    /\ query = <<>>
    /\ buckets = NoBuckets

\* No transcription request has been built.
NoRequest == [fn |-> "none", alibaba_language |-> "none", sent_language |-> "none"]

\* No connection: nothing to send, nothing received.
NoStream == [pc |-> "idle", chunks |-> 0, inbox |-> <<>>, results |-> <<>>,
             returned |-> <<>>]

\* A provider with nothing to say.
NoProvider == [script |-> <<>>, delivered |-> <<>>, eos |-> FALSE, closed |-> FALSE]

\* No transcription function has been called on its own.
AsrIdle ==
    /\ language = "english"
    /\ request = NoRequest
    /\ ws = NoStream
    /\ provider = NoProvider

Init ==
    /\ PipeInit
    /\ ParseIdle
    /\ DurationIdle
    /\ ParticipantsIdle
    /\ SearchIdle
    /\ AsrIdle

\* The id the store generates for a new row.  The store's code is not part
\* of the sources; the id is the Meeting's identity, so the store gives
\* each new row an id that no row had before.
GeneratedId == nextId

\* create_meeting: store the audio file, insert the row with
\* status=processing, commit, schedule process_meeting, answer.
CreateMeeting(content) ==
    /\ nextId <= MaxMeetings
    /\ audio' = [audio EXCEPT ![GeneratedId] = content]
    /\ meetings' = [meetings EXCEPT ![GeneratedId] = NewMeeting]
    /\ pc' = [pc EXCEPT ![GeneratedId] = "start"]
    /\ nextId' = nextId + 1
    /\ UNCHANGED <<pdf, session, run, del, exp, resp, pureVars>>

\* An exception raised inside the try block at the given step.
Raise(i, step, e) ==
    /\ pc' = [pc EXCEPT ![i] = "handler"]
    /\ run' = [run EXCEPT ![i].err = e, ![i].excStep = step]

\* process_meeting, lines 79-84: open the session, load the row, return at
\* once when there is none.
PM_Query(i) ==
    /\ pc[i] = "start"
    /\ pc' = [pc EXCEPT ![i] =
                IF meetings[i].status = "absent" THEN "returned" ELSE "check"]
    /\ UNCHANGED <<nextId, meetings, audio, pdf, session, run, del, exp, resp, pureVars>>

\* Lines 101-108 without the size check of lines 106-108.
PM_TranscribeCheckNoSize(i) ==
    /\ pc[i] = "check"
    /\ IF audio[i] = "none"
       THEN Raise(i, 1, "Audio file not found")
       ELSE /\ pc' = [pc EXCEPT ![i] = "token"]
            /\ UNCHANGED run
    /\ UNCHANGED <<nextId, meetings, audio, pdf, session, del, exp, resp, pureVars>>

\* transcribe_audio, lines 101-108: the file must exist and be non-empty.
PM_TranscribeCheck(i) ==
    /\ pc[i] = "check"
    /\ IF audio[i] = "none"
       THEN Raise(i, 1, "Audio file not found")
       ELSE IF audio[i] = "empty"
       THEN Raise(i, 1, "Audio file is empty")
       ELSE /\ pc' = [pc EXCEPT ![i] = "token"]
            /\ UNCHANGED run
    /\ UNCHANGED <<nextId, meetings, audio, pdf, session, del, exp, resp, pureVars>>

\* transcribe_audio, line 111: get_token, which may fail.
PM_GetToken(i) ==
    /\ pc[i] = "token"
    /\ \E ok \in BOOLEAN :
         IF ok
         THEN /\ pc' = [pc EXCEPT ![i] = "asr"]
              /\ run' = [run EXCEPT ![i].tokenRequested = TRUE]
         ELSE /\ pc' = [pc EXCEPT ![i] = "handler"]
              /\ run' = [run EXCEPT ![i].tokenRequested = TRUE,
                                    ![i].err = "Failed to get token",
                                    ![i].excStep = 1]
    /\ UNCHANGED <<nextId, meetings, audio, pdf, session, del, exp, resp, pureVars>>

\* transcribe_audio, lines 122-161: read the file (gone when a delete came in
\* between), post it, take the result; the provider may fail, and the text
\* it returns may be blank.
PM_AsrRequest(i) ==
    /\ pc[i] = "asr"
    /\ IF audio[i] = "none"
       THEN Raise(i, 1, "No such file or directory")
       ELSE \E out \in {"T", "", "error"} :
              IF out = "error"
              THEN /\ pc' = [pc EXCEPT ![i] = "handler"]
                   /\ run' = [run EXCEPT ![i].asrRequested = TRUE,
                                         ![i].err = "Failed to transcribe audio",
                                         ![i].excStep = 1]
              ELSE /\ pc' = [pc EXCEPT ![i] = "summarize"]
                   /\ run' = [run EXCEPT ![i].asrRequested = TRUE,
                                         ![i].transcript = out]
    /\ UNCHANGED <<nextId, meetings, audio, pdf, session, del, exp, resp, pureVars>>

\* generate_summary, called at line 90: a blank transcript is rejected, the
\* language model may fail, otherwise the five results come back.
PM_Summarize(i) ==
    /\ pc[i] = "summarize"
    /\ IF run[i].transcript = ""
       THEN /\ pc' = [pc EXCEPT ![i] = "handler"]
            /\ run' = [run EXCEPT ![i].summarizeCalled = TRUE,
                                  ![i].err = "Empty transcript",
                                  ![i].excStep = 2]
       ELSE \/ /\ pc' = [pc EXCEPT ![i] = "handler"]
               /\ run' = [run EXCEPT ![i].summarizeCalled = TRUE,
                                     ![i].err = "QWEN_API_KEY not set in environment variables",
                                     ![i].excStep = 2]
            \/ \E sd \in SummaryResults :
                 /\ pc' = [pc EXCEPT ![i] = "write"]
                 /\ run' = [run EXCEPT ![i].summarizeCalled = TRUE,
                                       ![i].summary_data = sd]
    /\ UNCHANGED <<nextId, meetings, audio, pdf, session, del, exp, resp, pureVars>>

\* process_meeting, lines 93-101 (Step 3): assign the results and
\* status=completed to the object, commit.  The commit may meet a database
\* fault.
PM_CompleteWrite(i) ==
    /\ pc[i] = "write"
    /\ \E fault \in BOOLEAN :
         LET assigned == Assign(session[i],
                                CompletedWrites(run[i].transcript, run[i].summary_data))
             c == Commit(meetings[i], assigned, fault)
         IN /\ meetings' = [meetings EXCEPT ![i] = c.row]
            /\ session' = [session EXCEPT ![i] = c.sess]
            /\ IF c.ok
               THEN /\ pc' = [pc EXCEPT ![i] = "completed"]
                    /\ run' = [run EXCEPT ![i].transcript = NULL,
                                          ![i].summary_data = NoSummary]
               ELSE /\ pc' = [pc EXCEPT ![i] = "handler"]
                    /\ run' = [run EXCEPT ![i].transcript = NULL,
                                          ![i].summary_data = NoSummary,
                                          ![i].err = IF fault /\ meetings[i].status # "absent"
                                                     THEN "OperationalError"
                                                     ELSE "StaleDataError",
                                          ![i].excStep = 3]
    /\ UNCHANGED <<nextId, audio, pdf, del, exp, resp, pureVars>>

\* process_meeting, lines 102-109: the failure handler assigns status=failed
\* and error_message=str(e), commits, and re-raises e.  When the commit
\* raises, that exception leaves the task instead and line 107 is not
\* reached.
PM_Handler(i) ==
    /\ pc[i] = "handler"
    /\ LET assigned == Assign(session[i], FailedWrites(run[i].err))
           c == Commit(meetings[i], assigned, FALSE)
       IN /\ meetings' = [meetings EXCEPT ![i] = c.row]
          /\ session' = [session EXCEPT ![i] = NewSession]
          /\ pc' = [pc EXCEPT ![i] = IF c.ok THEN "reraised" ELSE "crashed"]
          /\ run' = [run EXCEPT ![i].failedCommitted = c.ok,
                                ![i].transcript = NULL,
                                ![i].summary_data = NoSummary]
    /\ UNCHANGED <<nextId, audio, pdf, del, exp, resp, pureVars>>

----------------------------------------------------------------------------
(* The request handlers.  They are plain functions, run on worker threads, *)
(* so their file and database steps interleave with everything else.       *)

Respond(op, i, code) == resp' = [op |-> op, id |-> i, code |-> code]

\* delete_meeting, lines 125-127: load the row, 404 when there is none.
Delete_Query(i) ==
    /\ del.pc = "idle"
    /\ IF meetings[i].status = "absent"
       THEN /\ Respond("delete", i, 404)
            /\ UNCHANGED del
       ELSE /\ del' = [pc |-> "audio", id |-> i]
            /\ UNCHANGED resp
    /\ UNCHANGED <<nextId, meetings, audio, pdf, pc, session, run, exp, pureVars>>

\* delete_meeting, lines 130-131: remove the audio file when it exists.
Delete_RemoveAudio ==
    /\ del.pc = "audio"
    /\ audio' = [audio EXCEPT ![del.id] = "none"]
    /\ del' = [del EXCEPT !.pc = "pdf"]
    /\ UNCHANGED <<nextId, meetings, pdf, pc, session, run, exp, resp, pureVars>>

\* delete_meeting, lines 134-136: remove pdfs/meeting_{id}.pdf when it exists.
Delete_RemovePdf ==
    /\ del.pc = "pdf"
    /\ pdf' = [pdf EXCEPT ![del.id] = FALSE]
    /\ del' = [del EXCEPT !.pc = "commit"]
    /\ UNCHANGED <<nextId, meetings, audio, pc, session, run, exp, resp, pureVars>>

\* delete_meeting, lines 139-142: delete the row, commit, answer.
Delete_Commit ==
    /\ del.pc = "commit"
    /\ meetings' = [meetings EXCEPT ![del.id] = NoRow]
    /\ Respond("delete", del.id, 200)
    /\ del' = [pc |-> "idle", id |-> 0]
    /\ UNCHANGED <<nextId, audio, pdf, pc, session, run, exp, pureVars>>

\* The status a handler answers 400 for, were only failed meetings refused.
RefusedOnlyWhenFailed(status) == status = "failed"

\* Lines 150 and 169: meeting.status != "completed".
NotCompleted(status) == status # "completed"

\* export_meeting_as_pdf, lines 146-151: load the row; 404 when there is
\* none, 400 when it is not completed.
Export_Query(i) ==
    /\ exp.pc = "idle"
    /\ IF meetings[i].status = "absent"
       THEN /\ Respond("export", i, 404)
            /\ UNCHANGED exp
       ELSE IF NotCompleted(meetings[i].status)
       THEN /\ Respond("export", i, 400)
            /\ UNCHANGED exp
       ELSE /\ exp' = [pc |-> "generate", id |-> i, seen |-> meetings[i].status]
            /\ UNCHANGED resp
    /\ UNCHANGED <<nextId, meetings, audio, pdf, pc, session, run, del, pureVars>>

\* export_meeting_as_pdf, lines 154-161: generate_pdf writes
\* pdfs/meeting_{id}.pdf from the loaded object, and the file is returned.
Export_Generate ==
    /\ exp.pc = "generate"
    /\ pdf' = [pdf EXCEPT ![exp.id] = TRUE]
    /\ Respond("export", exp.id, 200)
    /\ exp' = [pc |-> "idle", id |-> 0, seen |-> "none"]
    /\ UNCHANGED <<nextId, meetings, audio, pc, session, run, del, pureVars>>

\* search_in_meeting, lines 165-198: 404, 400 or the match buckets.
Search(i) ==
    /\ Respond("search", i,
               IF meetings[i].status = "absent" THEN 404
               ELSE IF NotCompleted(meetings[i].status) THEN 400 ELSE 200)
    /\ UNCHANGED <<nextId, meetings, audio, pdf, pc, session, run, del, exp, pureVars>>

\* get_meeting, lines 118-121: the row or 404.
GetMeeting(i) ==
    /\ Respond("get", i, IF meetings[i].status = "absent" THEN 404 ELSE 200)
    /\ UNCHANGED <<nextId, meetings, audio, pdf, pc, session, run, del, exp, pureVars>>

Next ==
    \/ \E content \in {"empty", "data"} : CreateMeeting(content)
    \/ \E i \in Ids : PM_Query(i)
    \/ \E i \in Ids : PM_TranscribeCheck(i)
    \/ \E i \in Ids : PM_GetToken(i)
    \/ \E i \in Ids : PM_AsrRequest(i)
    \/ \E i \in Ids : PM_Summarize(i)
    \/ \E i \in Ids : PM_CompleteWrite(i)
    \/ \E i \in Ids : PM_Handler(i)
    \/ \E i \in Ids : Delete_Query(i)
    \/ Delete_RemoveAudio
    \/ Delete_RemovePdf
    \/ Delete_Commit
    \/ \E i \in Ids : Export_Query(i)
    \/ Export_Generate
    \/ \E i \in Ids : Search(i)
    \/ \E i \in Ids : GetMeeting(i)

Spec == Init /\ [][Next]_vars

\* Uploads, their process_meeting runs and deletes: the operations that
\* write the meetings table and the uploads/ directory.
NextPipeline ==
    \/ \E content \in {"empty", "data"} : CreateMeeting(content)
    \/ \E i \in Ids : PM_Query(i)
    \/ \E i \in Ids : PM_TranscribeCheck(i)
    \/ \E i \in Ids : PM_GetToken(i)
    \/ \E i \in Ids : PM_AsrRequest(i)
    \/ \E i \in Ids : PM_Summarize(i)
    \/ \E i \in Ids : PM_CompleteWrite(i)
    \/ \E i \in Ids : PM_Handler(i)
    \/ \E i \in Ids : Delete_Query(i)
    \/ Delete_RemoveAudio
    \/ Delete_RemovePdf
    \/ Delete_Commit

SpecPipeline == Init /\ [][NextPipeline]_vars

----------------------------------------------------------------------------
(* parse_action_items and parse_decisions.  A model response is a sequence *)
(* of lexemes: the brackets and the comma, "o" for a JSON object such as   *)
(* {"text": "Do X"}, "x" for a word of prose, and the newline.             *)

\* Longest model response handed to the parsers.
MaxLen == 5

Alphabet == {"[", "]", ",", "o", "x", "\n"}

Texts == UNION {[1..n -> Alphabet] : n \in 0..MaxLen}

Obj == [kind |-> "obj", items |-> <<>>]
Arr(xs) == [kind |-> "arr", items |-> xs]

Min(S) == CHOOSE a \in S : \A b \in S : a <= b
Max(S) == CHOOSE a \in S : \A b \in S : a >= b

\* The pattern without the greedy star: the match ends at the first "]"
\* after the first "[".
RegexSearchLazy(t) ==
    LET starts == {a \in 1..Len(t) : t[a] = "[" /\ \E b \in (a+1)..Len(t) : t[b] = "]"}
    IN IF starts = {}
       THEN [found |-> FALSE, from |-> 0, to |-> 0]
       ELSE LET a == Min(starts)
            IN [found |-> TRUE, from |-> a,
                to |-> Min({b \in (a+1)..Len(t) : t[b] = "]"})]

\* re.search(r'\[.*\]', t, re.DOTALL), lines 326 and 341: the leftmost "["
\* that some "]" follows, and from it as far as the star can reach; with
\* DOTALL it runs over newlines, so up to the last "]".
RegexSearch(t) ==
    LET starts == {a \in 1..Len(t) : t[a] = "[" /\ \E b \in (a+1)..Len(t) : t[b] = "]"}
    IN IF starts = {}
       THEN [found |-> FALSE, from |-> 0, to |-> 0]
       ELSE LET a == Min(starts)
            IN [found |-> TRUE, from |-> a,
                to |-> Max({b \in (a+1)..Len(t) : t[b] = "]"})]

\* The JSON scanner skips whitespace between lexemes.
SkipWs(s, p) ==
    IF \E q \in p..Len(s) : s[q] # "\n"
    THEN Min({q \in p..Len(s) : s[q] # "\n"})
    ELSE Len(s) + 1

JsonFail == [ok |-> FALSE, val |-> Obj, pos |-> 0]

RECURSIVE ParseValue(_, _)
RECURSIVE ParseElems(_, _, _)

\* The elements of an array after its "[": value, then "," or "]".
ParseElems(s, p, acc) ==
    LET r == ParseValue(s, p)
    IN IF ~r.ok THEN JsonFail
       ELSE LET q == SkipWs(s, r.pos)
            IN IF q > Len(s) THEN JsonFail
               ELSE IF s[q] = "," THEN ParseElems(s, q + 1, Append(acc, r.val))
               ELSE IF s[q] = "]"
               THEN [ok |-> TRUE, val |-> Arr(Append(acc, r.val)), pos |-> q + 1]
               ELSE JsonFail

\* One JSON value starting at or after position p.
ParseValue(s, p) ==
    LET q == SkipWs(s, p)
    IN IF q > Len(s) THEN JsonFail
       ELSE IF s[q] = "o" THEN [ok |-> TRUE, val |-> Obj, pos |-> q + 1]
       ELSE IF s[q] = "["
       THEN LET e == SkipWs(s, q + 1)
            IN IF e > Len(s) THEN JsonFail
               ELSE IF s[e] = "]" THEN [ok |-> TRUE, val |-> Arr(<<>>), pos |-> e + 1]
               ELSE ParseElems(s, e, <<>>)
       ELSE JsonFail

\* json.loads, lines 329 and 344: one value and nothing but whitespace after
\* it, or JSONDecodeError.
json_loads(s) ==
    LET r == ParseValue(s, 1)
    IN IF r.ok /\ SkipWs(s, r.pos) > Len(s)
       THEN [exc |-> "none", val |-> r.val]
       ELSE [exc |-> "JSONDecodeError", val |-> Obj]

\* Lines 324-335: the body of parse_action_items; the except clause takes
\* JSONDecodeError and nothing else.
parse_action_items(action_items_text) ==
    LET match == RegexSearch(action_items_text)
    IN IF match.found
       THEN LET r == json_loads(SubSeq(action_items_text, match.from, match.to))
            IN IF r.exc = "none" THEN [raised |-> FALSE, value |-> r.val.items]
               ELSE IF r.exc = "JSONDecodeError" THEN [raised |-> FALSE, value |-> <<>>]
               ELSE [raised |-> TRUE, value |-> <<>>]
       ELSE [raised |-> FALSE, value |-> <<>>]

\* Lines 339-350: the body of parse_decisions.
parse_decisions(decisions_text) ==
    LET match == RegexSearch(decisions_text)
    IN IF match.found
       THEN LET r == json_loads(SubSeq(decisions_text, match.from, match.to))
            IN IF r.exc = "none" THEN [raised |-> FALSE, value |-> r.val.items]
               ELSE IF r.exc = "JSONDecodeError" THEN [raised |-> FALSE, value |-> <<>>]
               ELSE [raised |-> TRUE, value |-> <<>>]
       ELSE [raised |-> FALSE, value |-> <<>>]

\* generate_summary, line 94: the action-items response goes to its parser.
ParseActionItems ==
    /\ parsed.who = "none"
    /\ LET r == parse_action_items(text)
       IN parsed' = [who |-> "action_items", raised |-> r.raised, value |-> r.value]
    /\ UNCHANGED <<pipeVars, text, durVars, partVars, searchVars, asrVars>>

\* generate_summary, line 108: the decisions response goes to its parser.
ParseDecisions ==
    /\ parsed.who = "none"
    /\ LET r == parse_decisions(text)
       IN parsed' = [who |-> "decisions", raised |-> r.raised, value |-> r.value]
    /\ UNCHANGED <<pipeVars, text, durVars, partVars, searchVars, asrVars>>

InitParse ==
    /\ PipeInit
    /\ text \in Texts
    /\ parsed = NoParse
    /\ DurationIdle
    /\ ParticipantsIdle
    /\ SearchIdle
    /\ AsrIdle

NextParse == ParseActionItems \/ ParseDecisions

SpecParse == InitParse /\ [][NextParse]_vars

----------------------------------------------------------------------------
(* The duration estimate of generate_summary.                              *)

\* Largest word count of a transcript handed to the estimate.
MaxWords == 1600

WordsPerMinute == 150
MinMinutes == 5

\* int(a / b): the quotient cut off.
RoundDown(a, b) == a \div b

\* Python's round(a / b) for a >= 0, b > 0 even: to the nearest integer, a
\* tie to the even one.
PyRound(a, b) ==
    LET q == a \div b
        r == a % b
    IN IF 2 * r < b THEN q
       ELSE IF 2 * r > b THEN q + 1
       ELSE IF q % 2 = 0 THEN q ELSE q + 1

\* Line 53: max(5, round(word_count / 150)).
estimated_minutes(word_count) ==
    LET r == PyRound(word_count, WordsPerMinute)
    IN IF r > MinMinutes THEN r ELSE MinMinutes

\* generate_summary, lines 52-54, for a transcript of `words` words.
EstimateDuration ==
    /\ minutes = 0
    /\ minutes' = estimated_minutes(words)
    /\ UNCHANGED <<pipeVars, parseVars, words, partVars, searchVars, asrVars>>

InitDuration ==
    /\ PipeInit
    /\ ParseIdle
    /\ words \in 1..MaxWords
    /\ minutes = 0
    /\ ParticipantsIdle
    /\ SearchIdle
    /\ AsrIdle

NextDuration == EstimateDuration

SpecDuration == InitDuration /\ [][NextDuration]_vars

----------------------------------------------------------------------------
(* extract_participants.  A transcript is a sequence of characters: the    *)
(* colon, the space, the newline and two letters.                          *)

\* Longest transcript handed to extract_participants.
MaxChars == 5

Chars == {":", " ", "\n", "a", "b"}

Transcripts == UNION {[1..n -> Chars] : n \in 0..MaxChars}

\* The characters str.strip() removes.
Whitespace == {" ", "\n"}

\* str.strip(): s without its leading and trailing whitespace.
RECURSIVE strip(_)
strip(s) ==
    IF s = <<>> THEN s
    ELSE IF Head(s) \in Whitespace THEN strip(Tail(s))
    ELSE IF s[Len(s)] \in Whitespace THEN strip(SubSeq(s, 1, Len(s) - 1))
    ELSE s

\* Position of the first c in s, 0 when there is none.
RECURSIVE find(_, _, _)
find(s, c, p) ==
    IF p > Len(s) THEN 0
    ELSE IF s[p] = c THEN p
    ELSE find(s, c, p + 1)

\* str.split(sep): the pieces of s between the separators; one empty piece
\* for the empty string.
RECURSIVE split(_, _)
split(s, sep) ==
    LET p == find(s, sep, 1)
    IN IF p = 0 THEN <<s>>
       ELSE <<SubSeq(s, 1, p - 1)>> \o split(SubSeq(s, p + 1, Len(s)), sep)

\* Line 126 without the strip: the text before the first colon as it stands.
name_of_untrimmed(line) == SubSeq(line, 1, find(line, ":", 1) - 1)

\* Line 126: line.split(':', 1)[0].strip(), for a line that has a colon.
name_of(line) == strip(SubSeq(line, 1, find(line, ":", 1) - 1))

\* Lines 120-128: the set the loop over the lines builds.
participant_set(transcript) ==
    LET lines == split(strip(transcript), "\n")
    IN {name_of(lines[k]) :
            k \in {j \in 1..Len(lines) :
                      find(lines[j], ":", 1) # 0 /\ name_of(lines[j]) # <<>>}}

\* Line 130: the list made from the set, in the order the set yields its
\* members, which is any order.
ParticipantLists(transcript) ==
    LET S == participant_set(transcript)
        n == Cardinality(S)
    IN {[k \in 1..n |-> [name |-> f[k]]] :
            f \in {g \in [1..n -> S] : \A a, b \in 1..n : g[a] = g[b] => a = b}}

\* generate_summary, line 48: extract_participants(transcript).
ExtractParticipants ==
    /\ participants = NotCalled
    /\ \E l \in ParticipantLists(tscript) :
         participants' = [called |-> TRUE, list |-> l]
    /\ UNCHANGED <<pipeVars, parseVars, durVars, tscript, searchVars, asrVars>>

InitParticipants ==
    /\ PipeInit
    /\ ParseIdle
    /\ DurationIdle
    /\ tscript \in Transcripts
    /\ participants = NotCalled
    /\ SearchIdle
    /\ AsrIdle

NextParticipants == ExtractParticipants

SpecParticipants == InitParticipants /\ [][NextParticipants]_vars

----------------------------------------------------------------------------
(* The matching code of search_in_meeting, lines 172-198, on a completed   *)
(* Meeting.  Texts are sequences of the letters a, A and b; a transcript   *)
(* has newlines between its lines.                                         *)

\* Longest query.
MaxQuery == 1

\* Most lines of a transcript.
MaxLines == 2

\* Most entries of a stored action_items or decisions list.
MaxItems == 1

Letters == {"a", "A", "b"}

Strings(n) == UNION {[1..k -> Letters] : k \in 0..n}

Queries == Strings(MaxQuery)

\* Summaries and the texts of items: long enough to hold a query inside.
FieldTexts == Strings(MaxQuery + 1)

\* lines[1] \n lines[2] \n ... : the text whose lines these are.
RECURSIVE join(_)
join(lines) ==
    IF Len(lines) = 1 THEN lines[1]
    ELSE lines[1] \o <<"\n">> \o join(Tail(lines))

\* The transcripts of completed meetings: generate_summary lets no blank
\* transcript through, so some line has a letter.
StoredTranscripts ==
    {join(ls) : ls \in {l \in UNION {[1..n -> Queries] : n \in 1..MaxLines} :
                            \E k \in 1..Len(l) : l[k] # <<>>}}

\* The elements a stored action_items or decisions array can have: the
\* parsers return whatever JSON array the model response holds, and lines
\* 95-96 store it as it is.  An element is an object with a string under
\* "text", an object without that key, an object whose "text" is no string
\* (a number, null), or no object at all (a nested array, a number).
StoredItems ==
    {[kind |-> "text", text |-> t] : t \in FieldTexts}
        \cup {[kind |-> k, text |-> <<>>] : k \in {"no_text", "text_not_str", "not_object"}}

StoredLists == UNION {[1..n -> StoredItems] : n \in 0..MaxItems}

\* The fields of a completed Meeting that search_in_meeting reads.
CompletedMeetings ==
    [transcript : StoredTranscripts, summary : FieldTexts,
     action_items : StoredLists, decisions : StoredLists]

\* str.lower().
lower(s) == [k \in 1..Len(s) |-> IF s[k] = "A" THEN "a" ELSE s[k]]

\* needle in hay, for two strings.
RECURSIVE is_in(_, _)
is_in(needle, hay) ==
    IF Len(needle) > Len(hay) THEN FALSE
    ELSE IF SubSeq(hay, 1, Len(needle)) = needle THEN TRUE
    ELSE is_in(needle, Tail(hay))

\* Line 176: [line for line in transcript_lines if query.lower() in line.lower()].
RECURSIVE matching_lines(_, _)
matching_lines(transcript_lines, q) ==
    IF transcript_lines = <<>> THEN <<>>
    ELSE (IF is_in(lower(q), lower(Head(transcript_lines)))
          THEN <<Head(transcript_lines)>> ELSE <<>>)
         \o matching_lines(Tail(transcript_lines), q)

\* item["text"].lower(), lines 186 and 191: what it raises for an element,
\* "none" when it gives the lowered text.
text_error(item) ==
    CASE item.kind = "not_object"   -> "TypeError"
      [] item.kind = "no_text"      -> "KeyError"
      [] item.kind = "text_not_str" -> "AttributeError"
      [] OTHER                      -> "none"

\* Lines 186 and 191: the list comprehension over the items; it ends with
\* the exception of the first element that raises one.
RECURSIVE matching_items(_, _)
matching_items(items, q) ==
    IF items = <<>> THEN [raised |-> "none", value |-> <<>>]
    ELSE IF text_error(Head(items)) # "none"
    THEN [raised |-> text_error(Head(items)), value |-> <<>>]
    ELSE LET rest == matching_items(Tail(items), q)
         IN IF rest.raised # "none" THEN rest
            ELSE [raised |-> "none",
                  value |-> (IF is_in(lower(q), lower(Head(items).text))
                             THEN <<Head(items)>> ELSE <<>>) \o rest.value]

\* Lines 172-198: the four buckets, or the exception that ends the request.
search_in_meeting(m, q) ==
    LET transcript_matches ==
            IF m.transcript # <<>>
            THEN matching_lines(split(m.transcript, "\n"), q)
            ELSE <<>>
        summary_match ==
            IF m.summary # <<>> /\ is_in(lower(q), lower(m.summary))
            THEN [some |-> TRUE, text |-> m.summary]
            ELSE NoMatch
        action_item_matches ==
            IF m.action_items # <<>> THEN matching_items(m.action_items, q)
            ELSE [raised |-> "none", value |-> <<>>]
        decision_matches ==
            IF m.decisions # <<>> THEN matching_items(m.decisions, q)
            ELSE [raised |-> "none", value |-> <<>>]
    IN IF action_item_matches.raised # "none"
       THEN [NoBuckets EXCEPT !.called = TRUE, !.raised = action_item_matches.raised]
       ELSE IF decision_matches.raised # "none"
       THEN [NoBuckets EXCEPT !.called = TRUE, !.raised = decision_matches.raised]
       ELSE [called |-> TRUE, raised |-> "none",
             transcript_matches |-> transcript_matches,
             summary_match |-> summary_match,
             action_item_matches |-> action_item_matches.value,
             decision_matches |-> decision_matches.value]

\* GET /meetings/{id}/search for a completed Meeting.
SearchInMeeting ==
    /\ ~buckets.called
    /\ buckets' = search_in_meeting(meeting, query)
    /\ UNCHANGED <<pipeVars, parseVars, durVars, partVars, meeting, query, asrVars>>

InitSearch ==
    /\ PipeInit
    /\ ParseIdle
    /\ DurationIdle
    /\ ParticipantsIdle
    /\ meeting \in CompletedMeetings
    /\ query \in Queries
    /\ buckets = NoBuckets
    /\ AsrIdle

NextSearch == SearchInMeeting

SpecSearch == InitSearch /\ [][NextSearch]_vars

----------------------------------------------------------------------------
(* The transcription functions on their own: the request transcribe_audio  *)
(* builds for a language hint, and transcribe_audio_streaming with its     *)
(* provider at the other end of the connection.                            *)

\* Most 16KB chunks of an audio file.
MaxChunks == 2

\* Most messages the provider sends before it closes.
MaxMessages == 2

\* The hints of the vocabulary, one of them in another letter case, and a
\* hint outside the vocabulary.
Hints == {"english", "mandarin", "cantonese", "mixed", "Mixed", "klingon"}

\* language.lower(), lines 115 and 179.
lower_hint(h) == IF h = "Mixed" THEN "mixed" ELSE h

\* Lines 25-30 and LANGUAGE_MAPPING.get(language.lower(), "en-US").
LANGUAGE_MAPPING(h) ==
    CASE lower_hint(h) = "english"   -> "en-US"
      [] lower_hint(h) = "mandarin"  -> "zh-CN"
      [] lower_hint(h) = "cantonese" -> "zh-HK"
      [] lower_hint(h) = "mixed"     -> "zh-CN"
      [] OTHER                       -> "en-US"

\* What the provider sends: two results, and a text message without a
\* "result" key.
Messages == {"r1", "r2", "status"}

Scripts == UNION {[1..n -> Messages] : n \in 0..MaxMessages}

\* Lines 205-207 and 219-221: a text message with a "result" adds it.
with_result(results, msg) ==
    IF msg \in {"r1", "r2"} THEN Append(results, msg) ELSE results

\* " ".join(transcription_results), line 228.
RECURSIVE join_space(_)
join_space(results) ==
    IF results = <<>> THEN <<>>
    ELSE IF Len(results) = 1 THEN results
    ELSE <<Head(results), " ">> \o join_space(Tail(results))

\* transcribe_audio, lines 115-136: the payload's "language" is the mapped
\* code.
BuildRequest ==
    /\ request.fn = "none"
    /\ request' = [fn |-> "transcribe_audio",
                   alibaba_language |-> LANGUAGE_MAPPING(language),
                   sent_language |-> LANGUAGE_MAPPING(language)]
    /\ UNCHANGED <<pipeVars, parseVars, durVars, partVars, searchVars,
                   language, ws, provider>>

\* transcribe_audio_streaming, lines 176-191: get_token, which may fail;
\* the code is mapped but streaming_url carries appkey, token, format and
\* sample_rate only; the file and the connection are opened.
StreamOpen ==
    /\ request.fn = "none"
    /\ \E token_ok \in BOOLEAN :
         IF token_ok
         THEN /\ request' = [fn |-> "transcribe_audio_streaming",
                             alibaba_language |-> LANGUAGE_MAPPING(language),
                             sent_language |-> "not sent"]
              /\ ws' = [ws EXCEPT !.pc = "send"]
         ELSE /\ request' = [fn |-> "transcribe_audio_streaming",
                             alibaba_language |-> "none",
                             sent_language |-> "none"]
              /\ ws' = [ws EXCEPT !.pc = "raised"]
    /\ UNCHANGED <<pipeVars, parseVars, durVars, partVars, searchVars,
                   language, provider>>

\* Lines 193-209, one round of the chunk loop: send a chunk, then one
\* receive; a message that is there is taken, and when none is there the
\* receive times out and the loop goes on.
StreamSendChunk ==
    /\ ws.pc = "send"
    /\ ws.chunks > 0
    /\ ws' = IF ws.inbox # <<>>
             THEN [ws EXCEPT !.chunks = @ - 1,
                             !.inbox = Tail(@),
                             !.results = with_result(@, Head(ws.inbox))]
             ELSE [ws EXCEPT !.chunks = @ - 1]
    /\ UNCHANGED <<pipeVars, parseVars, durVars, partVars, searchVars,
                   language, request, provider>>

\* Lines 194-196 and 212: the file is read to its end, the loop is left and
\* the empty end-of-stream frame is sent.
StreamEndOfInput ==
    /\ ws.pc = "send"
    /\ ws.chunks = 0
    /\ ws' = [ws EXCEPT !.pc = "final"]
    /\ provider' = [provider EXCEPT !.eos = TRUE]
    /\ UNCHANGED <<pipeVars, parseVars, durVars, partVars, searchVars,
                   language, request>>

\* Lines 215-228, one round of the final loop: a text message is taken, a
\* close ends the loop, and so does a receive that times out, since the
\* try encloses the while; then the results are joined and returned.
FinalReceive(w) ==
    IF w.inbox = <<>>
    THEN [w EXCEPT !.pc = "done", !.returned = join_space(w.results)]
    ELSE IF Head(w.inbox) = "CLOSED"
    THEN [w EXCEPT !.pc = "done", !.inbox = Tail(@),
                   !.returned = join_space(w.results)]
    ELSE [w EXCEPT !.inbox = Tail(@), !.results = with_result(@, Head(w.inbox))]

StreamFinalReceive ==
    /\ ws.pc = "final"
    /\ ws' = FinalReceive(ws)
    /\ UNCHANGED <<pipeVars, parseVars, durVars, partVars, searchVars,
                   language, request, provider>>

\* The provider sends its next message over the open connection.
ProviderDeliver ==
    /\ ws.pc \in {"send", "final", "done"}
    /\ ~provider.closed
    /\ provider.script # <<>>
    /\ ws' = [ws EXCEPT !.inbox = Append(@, Head(provider.script))]
    /\ provider' = [provider EXCEPT !.script = Tail(@),
                                    !.delivered = with_result(@, Head(provider.script))]
    /\ UNCHANGED <<pipeVars, parseVars, durVars, partVars, searchVars,
                   language, request>>

\* The provider has the end-of-stream frame and has sent all it had: it
\* closes the connection.
ProviderClose ==
    /\ ws.pc \in {"final", "done"}
    /\ provider.eos
    /\ ~provider.closed
    /\ provider.script = <<>>
    /\ ws' = [ws EXCEPT !.inbox = Append(@, "CLOSED")]
    /\ provider' = [provider EXCEPT !.closed = TRUE]
    /\ UNCHANGED <<pipeVars, parseVars, durVars, partVars, searchVars,
                   language, request>>

InitAsr ==
    /\ PipeInit
    /\ ParseIdle
    /\ DurationIdle
    /\ ParticipantsIdle
    /\ SearchIdle
    /\ language \in Hints
    /\ request = NoRequest
    /\ \E n \in 0..MaxChunks : ws = [NoStream EXCEPT !.chunks = n]
    /\ \E sc \in Scripts : provider = [NoProvider EXCEPT !.script = sc]

NextAsr ==
    \/ BuildRequest
    \/ StreamOpen
    \/ StreamSendChunk
    \/ StreamEndOfInput
    \/ StreamFinalReceive
    \/ ProviderDeliver
    \/ ProviderClose

SpecAsr == InitAsr /\ [][NextAsr]_vars

----------------------------------------------------------------------------
(* Properties of the pipeline and the handlers.                            *)

Exists(i) == meetings[i].status # "absent"

AllAbsent(row) == \A f \in DerivedFields : row[f] = NULL
AllPresent(row) == \A f \in DerivedFields : row[f] # NULL

\* C1: every accepted upload has status=processing when create_meeting
\* returns, and once its process_meeting task has ended the record is
\* completed or failed, whatever transcription, summarization and the
\* commits did.
C1_EndsCompletedOrFailed ==
    \A i \in Ids :
        /\ (pc[i] = "start" /\ Exists(i)) => meetings[i].status = "processing"
        /\ (pc[i] \in Terminal /\ Exists(i)) =>
               meetings[i].status \in {"completed", "failed"}

\* C2: a row's status changes only from processing to completed or to
\* failed, and a completed or failed row changes no more until it is deleted.
C2_StatusChangesOnce ==
    [][\A i \in Ids :
          LET old == meetings[i]
              new == meetings'[i]
          IN /\ old.status \in {"completed", "failed"} => (new = old \/ new = NoRow)
             /\ old.status = "processing" =>
                   \/ new = old
                   \/ new = NoRow
                   \/ new.status \in {"completed", "failed"}
             /\ old.status = "absent" => (new = old \/ new = NewMeeting)]_vars

\* C2 witness: one run has committed completed, another has committed failed.
C2_Witness ==
    \E i, j \in Ids :
        /\ meetings[i].status = "completed" /\ pc[i] = "completed"
        /\ meetings[j].status = "failed" /\ pc[j] = "reraised"

\* C3: a processing row has none of the six derived fields, a completed row
\* has all six; no state of the store shows some of them without the others.
C3_AllOrNothing ==
    \A i \in Ids :
        /\ meetings[i].status = "processing" => AllAbsent(meetings[i])
        /\ meetings[i].status = "completed" => AllPresent(meetings[i])

\* C3 witness: a completed row with empty lists next to a processing row
\* whose run already holds its results.
C3_Witness ==
    \E i, j \in Ids :
        /\ meetings[i].status = "completed"
        /\ meetings[i].action_items = "[]"
        /\ meetings[j].status = "processing"
        /\ pc[j] = "write"

\* C4: a failed row has none of the six derived fields, also when the
\* failure came from the Step 3 commit, after the fields were assigned.
C4_FailedHasNoDerivedFields ==
    \A i \in Ids : meetings[i].status = "failed" => AllAbsent(meetings[i])

\* C4 witness: a run whose Step 3 commit failed has been through the
\* failure handler, and another meeting is failed.
C4_Witness ==
    \E i, j \in Ids :
        /\ run[i].excStep = 3 /\ pc[i] = "crashed" /\ Exists(i)
        /\ meetings[j].status = "failed"

C6_FailedCommittedBeforeReraise ==
    \A i \in Ids :
        (pc[i] \in {"reraised", "crashed"} /\ run[i].excStep \in {1, 2, 3} /\ Exists(i))
            => run[i].failedCommitted

\* C7: once a meeting is deleted and no request or run for it is in flight,
\* neither its row, its audio file nor its report file is left.
C7_DeleteLeavesNothing ==
    \A i \in Ids :
        (/\ i < nextId
         /\ ~Exists(i)
         /\ del.pc = "idle"
         /\ exp.pc = "idle"
         /\ pc[i] \in Terminal)
            => (audio[i] = "none" /\ ~pdf[i])

\* C8: export and search answer 404 exactly when the row is absent and 400
\* exactly when it is processing or failed; a report is written, and search
\* answers 200, only for a completed meeting.
C8_ExportSearchGuards ==
    [][/\ (resp' # resp /\ resp'.op \in {"export", "search"} /\ resp'.code # 200) =>
             LET st == meetings[resp'.id].status
             IN /\ resp'.code = 404 <=> st = "absent"
                /\ resp'.code = 400 <=> st \in {"processing", "failed"}
       /\ (resp' # resp /\ resp'.op = "search" /\ resp'.code = 200) =>
             meetings[resp'.id].status = "completed"
       /\ (exp'.pc = "generate" /\ exp.pc = "idle") =>
             meetings[exp'.id].status = "completed"
       /\ \A i \in Ids : (pdf'[i] /\ ~pdf[i]) =>
             (exp.pc = "generate" /\ exp.id = i /\ exp.seen = "completed")]_vars

\* C8 witness: a report exists for one meeting and an export of a failed
\* one was just refused.
C8_Witness ==
    /\ \E j \in Ids : pdf[j]
    /\ resp.op = "export" /\ resp.code = 400
    /\ meetings[resp.id].status = "failed"

\* C13: transcribe_audio called for a path that does not exist fails with
\* the not-found error, called for an empty file it fails with the
\* invalid-input error, and a run that failed so has sent neither a token
\* request nor a transcription request.
C13_FileChecksBeforeRequests ==
    [][\A i \in Ids :
          /\ (pc[i] = "check" /\ pc'[i] # "check") =>
                /\ audio[i] = "none" =>
                      (pc'[i] = "handler" /\ run'[i].err = "Audio file not found")
                /\ audio[i] = "empty" =>
                      (pc'[i] = "handler" /\ run'[i].err = "Audio file is empty")
                /\ audio[i] = "data" => pc'[i] = "token"
                /\ ~run'[i].tokenRequested /\ ~run'[i].asrRequested
          /\ run'[i].err \in {"Audio file not found", "Audio file is empty"} =>
                /\ ~run'[i].tokenRequested /\ ~run'[i].asrRequested
                /\ run'[i].excStep = 1]_vars

\* C13 witness: one run has failed on a missing file, another on an empty
\* one, and neither has sent a request.
C13_Witness ==
    \E i, j \in Ids :
        /\ run[i].err = "Audio file not found" /\ pc[i] \in {"reraised", "crashed"}
        /\ run[j].err = "Audio file is empty" /\ pc[j] = "reraised"
        /\ ~run[i].tokenRequested /\ ~run[j].tokenRequested

----------------------------------------------------------------------------
(* Properties of the parsers and of the estimate.                          *)

\* The text of a JSON value, without whitespace.
RECURSIVE Ser(_)
RECURSIVE SerItems(_, _)
SerItems(xs, k) ==
    IF k > Len(xs) THEN <<>>
    ELSE (IF k > 1 THEN <<",">> ELSE <<>>) \o Ser(xs[k]) \o SerItems(xs, k + 1)
Ser(v) ==
    IF v.kind = "obj" THEN <<"o">>
    ELSE <<"[">> \o SerItems(v.items, 1) \o <<"]">>

RECURSIVE ValuesWithin(_)
RECURSIVE ItemsWithin(_)

\* The non-empty lists of values that take at most n lexemes, commas included.
ItemsWithin(n) ==
    IF n < 1 THEN {}
    ELSE {<<v>> : v \in ValuesWithin(n)}
         \cup UNION {{<<v>> \o rest : rest \in ItemsWithin(n - Len(Ser(v)) - 1)} :
                        v \in ValuesWithin(n - 2)}

\* The JSON values whose text takes at most n lexemes.
ValuesWithin(n) ==
    IF n < 1 THEN {}
    ELSE {Obj} \cup (IF n < 2 THEN {}
                     ELSE {Arr(xs) : xs \in {<<>>} \cup ItemsWithin(n - 2)})

\* Every JSON array whose text fits into MaxLen lexemes.
Arrays == {v \in ValuesWithin(MaxLen) : v.kind = "arr"}

Strip(s) == SelectSeq(s, LAMBDA c : c # "\n")

IsBracket(c) == c \in {"[", "]"}

\* The lexemes from the first "[" to the last "]" of t, <<>> when the last
\* "]" does not come after the first "[".
BracketSpan(t) ==
    LET opens == {a \in 1..Len(t) : t[a] = "["}
        closes == {b \in 1..Len(t) : t[b] = "]"}
    IN IF opens = {} \/ closes = {} THEN <<>>
       ELSE IF Max(closes) < Min(opens) THEN <<>>
       ELSE SubSeq(t, Min(opens), Max(closes))

\* C9: both parsers return the array written between the first "[" and the
\* last "]" of the response, so an array standing between bracket-free prose
\* comes back as it is; they return the empty list when there is no such
\* span or it is not a JSON array; and they never raise.
C9_ParsersReturnEmbeddedArray ==
    parsed.who # "none" =>
        /\ ~parsed.raised
        /\ \A v \in Arrays :
              Strip(BracketSpan(text)) = Ser(v) => parsed.value = v.items
        /\ (\A v \in Arrays : Strip(BracketSpan(text)) # Ser(v)) => parsed.value = <<>>
        /\ \A v \in Arrays : \A a \in 0..Len(text) : \A b \in 0..Len(text) :
              (/\ a + Len(Ser(v)) + b = Len(text)
               /\ SubSeq(text, a + 1, a + Len(Ser(v))) = Ser(v)
               /\ \A k \in (1..a) \cup ((Len(text) - b + 1)..Len(text)) : ~IsBracket(text[k]))
                  => parsed.value = v.items

\* C9 witness: the response "x [o] x" went through parse_action_items and
\* the one-object list came back.
C9_Witness ==
    /\ text = <<"x", "[", "o", "]", "x">>
    /\ parsed.who = "action_items"
    /\ parsed.value = <<Obj>>

Abs(n) == IF n < 0 THEN -n ELSE n

\* C10: the reported minutes are max(5, words/150 to the nearest integer):
\* never below 5, exactly 5 up to 750 words, within half a minute of
\* words/150 from 750 words on; 300 and 750 words give 5, 1500 words give 10.
C10_DurationEstimate ==
    minutes # 0 =>
        /\ minutes >= 5
        /\ words <= 750 => minutes = 5
        /\ words >= 750 => 2 * Abs(150 * minutes - words) <= 150
        /\ words = 300 => minutes = 5
        /\ words = 750 => minutes = 5
        /\ words = 1500 => minutes = 10

\* C10 witness: the estimate for 1500 words was made and is 10.
C10_Witness == words = 1500 /\ minutes = 10

\* The speaker labels of a transcript, read off its positions: p is the
\* first colon of its line, the label is what stands between the line's
\* start and p, from its first to its last character that is no space.
Labels(t) ==
    LET lineStart(p) ==
            IF \E q \in 1..(p - 1) : t[q] = "\n"
            THEN Max({q \in 1..(p - 1) : t[q] = "\n"}) + 1
            ELSE 1
        firstColon(p) ==
            t[p] = ":" /\ \A q \in lineStart(p)..(p - 1) : t[q] # ":"
        inked(p) == {q \in lineStart(p)..(p - 1) : t[q] # " "}
    IN {SubSeq(t, Min(inked(p)), Max(inked(p))) :
            p \in {q \in 1..Len(t) : firstColon(q) /\ inked(q) # {}}}

\* C11: the returned list has exactly one {name} entry for each distinct
\* non-empty trimmed prefix before the first ":" of a line, and no other
\* entry; a transcript without ":" gives the empty list.
C11_ParticipantsAreDistinctLabels ==
    LET list == participants.list
    IN participants.called =>
        /\ {list[k].name : k \in 1..Len(list)} = Labels(tscript)
        /\ \A a, b \in 1..Len(list) : list[a].name = list[b].name => a = b
        /\ (\A p \in 1..Len(tscript) : tscript[p] # ":") => list = <<>>
        /\ \A k \in 1..Len(list) :
              /\ list[k].name # <<>>
              /\ Head(list[k].name) # " "

\* C11 witness: "a:\na:" gave one entry, and so the duplicate was dropped.
C11_Witness ==
    /\ tscript = <<"a", ":", "\n", "a", ":">>
    /\ participants = [called |-> TRUE, list |-> <<[name |-> <<"a">>]>>]

\* Two letters that differ in case at most.
SameLetter(x, y) == x = y \/ {x, y} = {"a", "A"}

\* q stands somewhere in s, letter case aside.
Occurs(q, s) ==
    \E a \in 0..(Len(s) - Len(q)) : \A k \in 1..Len(q) : SameLetter(s[a + k], q[k])

\* The lines of t: what stands between two neighbouring line ends.
LinesOf(t) ==
    LET ends == {0, Len(t) + 1} \cup {p \in 1..Len(t) : t[p] = "\n"}
        after(p) == Min({e \in ends : e > p})
        starts == ends \ {Len(t) + 1}
        nth(k) == CHOOSE p \in starts : Cardinality({e \in starts : e < p}) = k - 1
    IN [k \in 1..Cardinality(starts) |-> SubSeq(t, nth(k) + 1, after(nth(k)) - 1)]

\* The entries of a stored list whose "text" holds the query.
ItemsWith(q, items) ==
    SelectSeq(items, LAMBDA it : it.kind = "text" /\ Occurs(q, it.text))

\* The buckets are those of the claim, for the searches that returned.
BucketsExact ==
    /\ buckets.transcript_matches =
           SelectSeq(LinesOf(meeting.transcript), LAMBDA l : Occurs(query, l))
    /\ buckets.summary_match.text =
           (IF Occurs(query, meeting.summary) THEN meeting.summary ELSE <<>>)
    /\ buckets.summary_match.some => Occurs(query, meeting.summary)
    /\ buckets.action_item_matches = ItemsWith(query, meeting.action_items)
    /\ buckets.decision_matches = ItemsWith(query, meeting.decisions)

\* What the search gives when it returns: the four buckets of the claim.
ReturnedBucketsExact ==
    (buckets.called /\ buckets.raised = "none") => BucketsExact

\* C12: for a completed Meeting and any query the search returns the
\* transcript lines that hold the query, in order, the summary when it
\* holds the query, the action items whose text holds it and the decisions
\* whose text holds it, letter case aside, each bucket from its own field.
C12_SearchBuckets ==
    buckets.called => (buckets.raised = "none" /\ BucketsExact)

\* C16: a search of a completed Meeting returns its buckets and raises
\* nothing, whatever arrays the parsers left in action_items and decisions.
C16_SearchNeverRaises ==
    buckets.called => buckets.raised = "none"

\* The codes that name one language.
FixedCodes == {"en-US", "zh-CN", "zh-HK"}

\* C14: the request built for the hint "mixed" names no single language,
\* so that the provider detects it; english, mandarin and cantonese each
\* get their own code.
C14_MixedIsNotPinned ==
    request.fn # "none" /\ request.alibaba_language # "none" =>
        /\ lower_hint(language) = "mixed" =>
              /\ request.sent_language \notin FixedCodes
              /\ request.alibaba_language \notin FixedCodes
        /\ language = "english" => request.alibaba_language = "en-US"
        /\ language = "mandarin" => request.alibaba_language = "zh-CN"
        /\ language = "cantonese" => request.alibaba_language = "zh-HK"

\* C15: transcribe_audio_streaming returns only after the provider has
\* closed the connection, and the text it returns holds every result the
\* provider delivered, in the order of arrival, with spaces between; a
\* receive that times out ends neither loop.
C15_TimeoutNeverEndsALoop ==
    ws.pc = "done" =>
        /\ provider.closed
        /\ provider.script = <<>>
        /\ ws.returned = join_space(provider.delivered)

====
